---- MODULE Spec2Model ----
(***************************************************************************)
(* Model of airflow.providers.common.compat.openlineage.utils.spark:       *)
(* the import-time resolution of the two injector names and the two        *)
(* property injectors (no-op and legacy variants).                         *)
(*                                                                         *)
(* A properties mapping (a Python dict with string keys) is a TLA+         *)
(* function whose domain is a set of strings.  An optional Python value    *)
(* (None / missing attribute / no return value) is a sequence of length 0, *)
(* a present one a sequence of length 1.                                   *)
(***************************************************************************)
EXTENDS Integers, Sequences, FiniteSets, TLC

VARIABLES
    pc,             \* position of the module-level code (lines 31-124)
    imported,       \* outcome of each import statement tried so far
    parentFn,       \* variant bound to inject_parent_job_information_into_spark_properties
    transportFn,    \* variant bound to inject_transport_information_into_spark_properties
    warnings,       \* warning log lines emitted, per capability
    infos,          \* info log lines emitted
    transport,      \* the listener's client transport (external singleton)
    clientCreated,  \* whether get_or_create_openlineage_client() was called
    origin,         \* the mapping the caller passed to the first call
    context,        \* the context the caller passes
    trail,          \* the injectors called so far, each on the previous one's result
    last            \* the last call: its argument and what it did

vars == <<pc, imported, parentFn, transportFn, warnings, infos, transport,
          clientCreated, origin, context, trail, last>>

\* Longest chain of calls a behaviour makes.
MaxCalls == 2

-----------------------------------------------------------------------------
(* Python values *)

EmptyMap == [k \in {} |-> ""]

None == <<>>

Some(v) == <<v>>

\* bool(x) of an optional string: None and "" are falsy.
Truthy(o) == o # None /\ o[1] # ""

\* str.startswith
StartsWith(s, p) == Len(s) >= Len(p) /\ SubSeq(s, 1, Len(p)) = p

\* {**a, **b}: on a key of both, b's value wins.
Merge(a, b) ==
    [k \in DOMAIN a \cup DOMAIN b |-> IF k \in DOMAIN b THEN b[k] ELSE a[k]]

Digit(d) ==
    CASE d = 0 -> "0" [] d = 1 -> "1" [] d = 2 -> "2" [] d = 3 -> "3"
      [] d = 4 -> "4" [] d = 5 -> "5" [] d = 6 -> "6" [] d = 7 -> "7"
      [] d = 8 -> "8" [] d = 9 -> "9"

RECURSIVE NatToStr(_)
NatToStr(n) == IF n < 10 THEN Digit(n) ELSE NatToStr(n \div 10) \o Digit(n % 10)

\* str(n) of an int
IntToStr(n) == IF n < 0 THEN "-" \o NatToStr(-n) ELSE NatToStr(n)

\* int(x) of the float x = num / den (den > 0): the fraction is dropped,
\* which rounds toward zero.
IntOfFloat(num, den) == IF num >= 0 THEN num \div den ELSE -((-num) \div den)

\* As TimeoutInMillis, but with math.floor in place of int.
TimeoutInMillisFloor(timeout16) == IntToStr((timeout16 * 1000) \div 16)

\* str(int(transport.timeout * 1000)).  The timeout is held in sixteenths of
\* a second, so that timeout and timeout * 1000 are exact as floats.
TimeoutInMillis(timeout16) == IntToStr(IntOfFloat(timeout16 * 1000, 16))

-----------------------------------------------------------------------------
(* What a call does: how it ended, the mapping it returned (if it returned), *)
(* the caller's argument mapping after the call, the lineage lookups it made,*)
(* the log lines it wrote and whether it asked the listener for the client.  *)

Result(outcome, ret, argAfter, lookups, warned, informed, client) ==
    [outcome |-> outcome, ret |-> ret, argAfter |-> argAfter, lookups |-> lookups,
     warned |-> warned, informed |-> informed, client |-> client]

\* As ParentPrefix, but cut to the part both guards share.
ParentPrefixShared == "spark.openlineage"

ParentPrefix == "spark.openlineage.parent"

TransportPrefix == "spark.openlineage.transport"

\* As AnyKeyStartsWith, but with all() in place of any().
AllKeysStartWith(properties, prefix) ==
    \A key \in DOMAIN properties : StartsWith(key, prefix)

\* any(str(key).startswith(prefix) for key in properties)
AnyKeyStartsWith(properties, prefix) ==
    \E key \in DOMAIN properties : StartsWith(key, prefix)

\* The macros of airflow.providers.openlineage.plugins.macros.
lineage_job_namespace == "ns"

lineage_job_name(ti) == ti.job

lineage_run_id(ti) == ti.run

\* As inject_parent_noop, but without the log.warning call.
inject_parent_noop_Silent(properties, ctx) ==
    Result("returned", Some(properties), properties, {}, 0, 0, FALSE)

\* Lines 45-50: the no-op bound when the macros import fails.
inject_parent_noop(properties, ctx) ==
    Result("returned", Some(properties), properties, {}, 1, 0, FALSE)

\* Lines 64-68.
ol_parent_job_properties(ti) ==
    ("spark.openlineage.parentJobNamespace" :> lineage_job_namespace)
    @@ ("spark.openlineage.parentJobName" :> lineage_job_name(ti))
    @@ ("spark.openlineage.parentRunId" :> lineage_run_id(ti))

ParentLookups == {"lineage_job_namespace", "lineage_job_name", "lineage_run_id"}

\* As inject_parent_legacy, but properties.update(...) on the caller's mapping.
inject_parent_legacy_InPlace(properties, ctx) ==
    IF AnyKeyStartsWith(properties, ParentPrefix)
    THEN Result("returned", Some(properties), properties, {}, 0, 1, FALSE)
    ELSE IF "ti" \notin DOMAIN ctx
    THEN Result("KeyError", None, properties, {}, 0, 0, FALSE)
    ELSE LET merged == Merge(properties, ol_parent_job_properties(ctx["ti"]))
         IN  Result("returned", Some(merged), merged, ParentLookups, 0, 0, FALSE)

\* As inject_parent_legacy, but the skip branch returns {} as line 100 does.
inject_parent_legacy_SkipEmpty(properties, ctx) ==
    IF AnyKeyStartsWith(properties, ParentPrefix)
    THEN Result("returned", Some(EmptyMap), properties, {}, 0, 1, FALSE)
    ELSE IF "ti" \notin DOMAIN ctx
    THEN Result("KeyError", None, properties, {}, 0, 0, FALSE)
    ELSE Result("returned",
                Some(Merge(properties, ol_parent_job_properties(ctx["ti"]))),
                properties, ParentLookups, 0, 0, FALSE)

\* As inject_parent_legacy, but a missing ti is caught and the input returned.
inject_parent_legacy_CatchKeyError(properties, ctx) ==
    IF AnyKeyStartsWith(properties, ParentPrefix)
    THEN Result("returned", Some(properties), properties, {}, 0, 1, FALSE)
    ELSE IF "ti" \notin DOMAIN ctx
    THEN Result("returned", Some(properties), properties, {}, 0, 0, FALSE)
    ELSE Result("returned",
                Some(Merge(properties, ol_parent_job_properties(ctx["ti"]))),
                properties, ParentLookups, 0, 0, FALSE)

\* Lines 54-69: the wrapper bound when the macros import succeeds.
inject_parent_legacy(properties, ctx) ==
    IF AnyKeyStartsWith(properties, ParentPrefix)
    THEN Result("returned", Some(properties), properties, {}, 0, 1, FALSE)
    ELSE IF "ti" \notin DOMAIN ctx
    THEN Result("KeyError", None, properties, {}, 0, 0, FALSE)
    ELSE Result("returned",
                Some(Merge(properties, ol_parent_job_properties(ctx["ti"]))),
                properties, ParentLookups, 0, 0, FALSE)

\* As inject_transport_noop, but returning {} as line 100 does.
inject_transport_noop_Empty(properties, ctx, tr) ==
    Result("returned", Some(EmptyMap), properties, {}, 1, 0, FALSE)

\* Lines 75-80: the no-op bound when the listener import fails.
inject_transport_noop(properties, ctx, tr) ==
    Result("returned", Some(properties), properties, {}, 1, 0, FALSE)

\* Lines 120-122: the keys a custom_headers mapping adds.
HeaderProperties(custom_headers) ==
    LET PropertyKey(h) == "spark.openlineage.transport.headers." \o h
    IN  [k \in {PropertyKey(h) : h \in DOMAIN custom_headers} |->
            custom_headers[CHOOSE h \in DOMAIN custom_headers : PropertyKey(h) = k]]

\* Lines 102-122.
transport_properties(tr) ==
    LET base ==
            ("spark.openlineage.transport.type" :> "http")
            @@ ("spark.openlineage.transport.url" :> tr.url)
            @@ ("spark.openlineage.transport.endpoint" :> tr.endpoint)
            @@ ("spark.openlineage.transport.timeoutInMillis"
                   :> TimeoutInMillis(tr.timeout16))
        withCompression ==
            IF Truthy(tr.compression)
            THEN Merge(base, "spark.openlineage.transport.compression"
                                :> tr.compression[1])
            ELSE base
        withAuth ==
            IF tr.auth.has_api_key /\ Truthy(tr.auth.bearer)
            THEN Merge(withCompression,
                       ("spark.openlineage.transport.auth.type" :> "api_key")
                       @@ ("spark.openlineage.transport.auth.apiKey"
                              :> tr.auth.bearer[1]))
            ELSE withCompression
    IN  IF tr.custom_headers # None /\ DOMAIN tr.custom_headers[1] # {}
        THEN Merge(withAuth, HeaderProperties(tr.custom_headers[1]))
        ELSE withAuth

\* As inject_transport_legacy, but an unsupported kind returns the input.
inject_transport_legacy_KeepInput(properties, ctx, tr) ==
    IF AnyKeyStartsWith(properties, TransportPrefix)
    THEN Result("returned", Some(properties), properties, {}, 0, 1, FALSE)
    ELSE IF tr.kind # "http"
    THEN Result("returned", Some(properties), properties, {}, 0, 1, TRUE)
    ELSE Result("returned", Some(Merge(properties, transport_properties(tr))),
                properties, {}, 0, 0, TRUE)

\* Lines 84-124: the wrapper bound when the listener import succeeds.
inject_transport_legacy(properties, ctx, tr) ==
    IF AnyKeyStartsWith(properties, TransportPrefix)
    THEN Result("returned", Some(properties), properties, {}, 0, 1, FALSE)
    ELSE IF tr.kind # "http"
    THEN Result("returned", Some(EmptyMap), properties, {}, 0, 1, TRUE)
    ELSE Result("returned", Some(Merge(properties, transport_properties(tr))),
                properties, {}, 0, 0, TRUE)

\* The exports of airflow.providers.openlineage.utils.spark, which the legacy
\* wrappers re-create.
inject_parent_unified(properties, ctx) == inject_parent_legacy(properties, ctx)

inject_transport_unified(properties, ctx, tr) ==
    inject_transport_legacy(properties, ctx, tr)

\* A call of the name, dispatched on the variant bound to it at load.
inject_parent_job_information_into_spark_properties(variant, properties, ctx) ==
    CASE variant = "unified" -> inject_parent_unified(properties, ctx)
      [] variant = "legacy" -> inject_parent_legacy(properties, ctx)
      [] variant = "noop" -> inject_parent_noop(properties, ctx)

inject_transport_information_into_spark_properties(variant, properties, ctx, tr) ==
    CASE variant = "unified" -> inject_transport_unified(properties, ctx, tr)
      [] variant = "legacy" -> inject_transport_legacy(properties, ctx, tr)
      [] variant = "noop" -> inject_transport_noop(properties, ctx, tr)

-----------------------------------------------------------------------------
(* Inputs *)

PropertyKeys ==
    {"a", "spark.openlineage.paren", "spark.openlineage.parentRunId",
     "spark.openlineage.transport.type"}

PropertiesInputs ==
    {m \in UNION {[S -> {"b", "old"}] : S \in SUBSET PropertyKeys} :
        \A k \in DOMAIN m : k # "a" => m[k] = "old"}

TaskInstances == {[job |-> "job", run |-> "run-1"], [job |-> "dag.task", run |-> "run-2"]}

Contexts == {[ds |-> "2024-01-01"]} \cup {[ti |-> t] : t \in TaskInstances}

Auths ==
    {[has_api_key |-> FALSE, bearer |-> None],
     [has_api_key |-> FALSE, bearer |-> Some("Bearer jwt")],
     [has_api_key |-> TRUE, bearer |-> None],
     [has_api_key |-> TRUE, bearer |-> Some("")],
     [has_api_key |-> TRUE, bearer |-> Some("Bearer key")]}

CustomHeaders ==
    {None, Some(EmptyMap), Some(("X-Foo" :> "bar") @@ ("X-B" :> "1"))}

HttpTransports ==
    [kind : {"http"}, url : {"http://ol:5000"}, endpoint : {"api/v1/lineage"},
     timeout16 : {-1, 1, 80}, compression : {None, Some(""), Some("gzip")},
     auth : Auths, custom_headers : CustomHeaders]

OtherTransports ==
    {[kind |-> "kafka", url |-> "", endpoint |-> "", timeout16 |-> 80,
      compression |-> None, auth |-> [has_api_key |-> FALSE, bearer |-> None],
      custom_headers |-> None]}

Transports == HttpTransports \cup OtherTransports

-----------------------------------------------------------------------------
(* The state machine *)

NoCall ==
    [fn |-> "none", variant |-> "none", arg |-> EmptyMap, outcome |-> "none",
     ret |-> None, argAfter |-> EmptyMap, lookups |-> {}, warned |-> 0,
     informed |-> 0, client |-> FALSE]

Init ==
    /\ pc = "import_unified"
    /\ imported = [unified |-> "untried", macros |-> "untried", listener |-> "untried"]
    /\ parentFn = "unbound"
    /\ transportFn = "unbound"
    /\ warnings = [parent |-> 0, transport |-> 0]
    /\ infos = 0
    /\ transport \in Transports
    /\ clientCreated = FALSE
    /\ origin = EmptyMap
    /\ context = [ds |-> "2024-01-01"]
    /\ trail = <<>>
    /\ last = NoCall

Outcome(ok) == IF ok THEN "ok" ELSE "ImportError"

\* Lines 31-36: from airflow.providers.openlineage.utils.spark import both names.
ImportUnified ==
    /\ pc = "import_unified"
    /\ \E ok \in BOOLEAN :
        /\ imported' = [imported EXCEPT !.unified = Outcome(ok)]
        /\ IF ok
           THEN /\ parentFn' = "unified"
                /\ transportFn' = "unified"
                /\ pc' = "loaded"
           ELSE /\ UNCHANGED <<parentFn, transportFn>>
                /\ pc' = "import_macros"
    /\ UNCHANGED <<warnings, infos, transport, clientCreated, origin, context,
                   trail, last>>

\* As ImportMacros, but a failed macros import ends the resolution with both
\* names bound to the no-op.
ImportMacros_BothNoop ==
    /\ pc = "import_macros"
    /\ \E ok \in BOOLEAN :
        /\ imported' = [imported EXCEPT !.macros = Outcome(ok)]
        /\ parentFn' = IF ok THEN "legacy" ELSE "noop"
        /\ transportFn' = IF ok THEN transportFn ELSE "noop"
        /\ pc' = IF ok THEN "import_listener" ELSE "loaded"
    /\ UNCHANGED <<warnings, infos, transport, clientCreated, origin,
                   context, trail, last>>

\* Lines 37-69: the macros import, and the def that follows it.
ImportMacros ==
    /\ pc = "import_macros"
    /\ \E ok \in BOOLEAN :
        /\ imported' = [imported EXCEPT !.macros = Outcome(ok)]
        /\ parentFn' = IF ok THEN "legacy" ELSE "noop"
    /\ pc' = "import_listener"
    /\ UNCHANGED <<transportFn, warnings, infos, transport, clientCreated, origin,
                   context, trail, last>>

\* Lines 71-124: the listener import, and the def that follows it.
ImportListener ==
    /\ pc = "import_listener"
    /\ \E ok \in BOOLEAN :
        /\ imported' = [imported EXCEPT !.listener = Outcome(ok)]
        /\ transportFn' = IF ok THEN "legacy" ELSE "noop"
    /\ pc' = "loaded"
    /\ UNCHANGED <<parentFn, warnings, infos, transport, clientCreated, origin,
                   context, trail, last>>

\* The state after a call of injector fn, bound to variant, on arg with ctx.
Called(fn, variant, arg, ctx, r) ==
    /\ last' = [fn |-> fn, variant |-> variant, arg |-> arg, outcome |-> r.outcome,
                ret |-> r.ret, argAfter |-> r.argAfter, lookups |-> r.lookups,
                warned |-> r.warned, informed |-> r.informed, client |-> r.client]
    /\ warnings' = [warnings EXCEPT ![fn] = @ + r.warned]
    /\ infos' = infos + r.informed
    /\ clientCreated' = (clientCreated \/ r.client)
    /\ trail' = Append(trail, fn)
    /\ context' = ctx
    /\ UNCHANGED <<pc, imported, parentFn, transportFn, transport>>

\* A caller calls inject_parent_job_information_into_spark_properties: on a
\* mapping of its own, or on the mapping the previous call returned.
CallParent ==
    /\ pc = "loaded"
    /\ Len(trail) < MaxCalls
    /\ \/ /\ trail = <<>>
          /\ \E properties \in PropertiesInputs, ctx \in Contexts :
                /\ origin' = properties
                /\ Called("parent", parentFn, properties, ctx,
                          inject_parent_job_information_into_spark_properties(
                              parentFn, properties, ctx))
       \/ /\ trail # <<>>
          /\ last.outcome = "returned"
          /\ origin' = origin
          /\ Called("parent", parentFn, last.ret[1], context,
                    inject_parent_job_information_into_spark_properties(
                        parentFn, last.ret[1], context))

\* A caller calls inject_transport_information_into_spark_properties.
CallTransport ==
    /\ pc = "loaded"
    /\ Len(trail) < MaxCalls
    /\ \/ /\ trail = <<>>
          /\ \E properties \in PropertiesInputs, ctx \in Contexts :
                /\ origin' = properties
                /\ Called("transport", transportFn, properties, ctx,
                          inject_transport_information_into_spark_properties(
                              transportFn, properties, ctx, transport))
       \/ /\ trail # <<>>
          /\ last.outcome = "returned"
          /\ origin' = origin
          /\ Called("transport", transportFn, last.ret[1], context,
                    inject_transport_information_into_spark_properties(
                        transportFn, last.ret[1], context, transport))

Next == ImportUnified \/ ImportMacros \/ ImportListener \/ CallParent \/ CallTransport

Spec == Init /\ [][Next]_vars

-----------------------------------------------------------------------------
(* Properties *)

\* The mapping m has a key that starts with prefix p.
HasKeyPrefixed(m, p) == \E k \in DOMAIN m : StartsWith(k, p)

LegacyParentCall == last.fn = "parent" /\ last.variant = "legacy"

LegacyTransportCall == last.fn = "transport" /\ last.variant = "legacy"

\* C1: prefix guard.  A legacy parent-job call on a mapping that has a key
\* starting with spark.openlineage.parent returns that mapping unchanged, for
\* any context and without a lineage lookup; a legacy transport call on a
\* mapping that has a key starting with spark.openlineage.transport returns
\* that mapping unchanged, whatever the transport kind.
C1_PrefixGuard ==
    /\ (LegacyParentCall /\ HasKeyPrefixed(last.arg, "spark.openlineage.parent"))
          => /\ last.outcome = "returned"
             /\ last.ret = Some(last.arg)
             /\ last.lookups = {}
    /\ (LegacyTransportCall /\ HasKeyPrefixed(last.arg, "spark.openlineage.transport"))
          => /\ last.outcome = "returned"
             /\ last.ret = Some(last.arg)

\* Both guards hit in turn, with no ti in the context and a kafka transport.
C1_Witness ==
    /\ trail = <<"parent", "transport">>
    /\ parentFn = "legacy" /\ transportFn = "legacy"
    /\ "ti" \notin DOMAIN context
    /\ transport.kind = "kafka"
    /\ origin = ("a" :> "b") @@ ("spark.openlineage.parentRunId" :> "old")
                @@ ("spark.openlineage.transport.type" :> "old")
    /\ last.arg = origin
    /\ last.ret = Some(origin)

ParentKeys ==
    {"spark.openlineage.parentJobNamespace", "spark.openlineage.parentJobName",
     "spark.openlineage.parentRunId"}

\* C2: a legacy parent-job call on a mapping with no key starting with
\* spark.openlineage.parent, with a ti in the context, returns the input keys
\* plus exactly the three parent keys, mapped to the three lookups; every
\* input key keeps its value and the caller's mapping is not changed.
C2_ParentInjection ==
    (/\ LegacyParentCall
     /\ ~HasKeyPrefixed(last.arg, "spark.openlineage.parent")
     /\ "ti" \in DOMAIN context)
    => /\ last.outcome = "returned"
       /\ last.ret # None
       /\ LET r == last.ret[1]
          IN  /\ DOMAIN r = DOMAIN last.arg \cup ParentKeys
              /\ Cardinality(DOMAIN r) = Cardinality(DOMAIN last.arg) + 3
              /\ r["spark.openlineage.parentJobNamespace"] = lineage_job_namespace
              /\ r["spark.openlineage.parentJobName"] = lineage_job_name(context.ti)
              /\ r["spark.openlineage.parentRunId"] = lineage_run_id(context.ti)
              /\ \A k \in DOMAIN last.arg : r[k] = last.arg[k]
       /\ last.argAfter = last.arg

C2_Witness ==
    /\ LegacyParentCall
    /\ context = [ti |-> [job |-> "job", run |-> "run-1"]]
    /\ last.arg = ("a" :> "b") @@ ("spark.openlineage.transport.type" :> "old")
    /\ last.ret = Some(("a" :> "b") @@ ("spark.openlineage.transport.type" :> "old")
                       @@ ("spark.openlineage.parentJobNamespace" :> "ns")
                       @@ ("spark.openlineage.parentJobName" :> "job")
                       @@ ("spark.openlineage.parentRunId" :> "run-1"))

DigitValue(c) ==
    CASE c = "0" -> 0 [] c = "1" -> 1 [] c = "2" -> 2 [] c = "3" -> 3
      [] c = "4" -> 4 [] c = "5" -> 5 [] c = "6" -> 6 [] c = "7" -> 7
      [] c = "8" -> 8 [] c = "9" -> 9

RECURSIVE ParseNat(_)
ParseNat(s) ==
    IF Len(s) = 0 THEN 0
    ELSE ParseNat(SubSeq(s, 1, Len(s) - 1)) * 10 + DigitValue(SubSeq(s, Len(s), Len(s)))

\* The integer a decimal numeral stands for.
ParseInt(s) ==
    IF Len(s) > 0 /\ SubSeq(s, 1, 1) = "-"
    THEN -ParseNat(SubSeq(s, 2, Len(s)))
    ELSE ParseNat(s)

\* ms is num/den with the fraction dropped (rounded toward zero).
IsTruncation(ms, num, den) ==
    IF num >= 0
    THEN ms * den <= num /\ num < (ms + 1) * den
    ELSE ms * den >= num /\ num > (ms - 1) * den

\* ms is the greatest integer not above num/den.
IsFloor(ms, num, den) == ms * den <= num /\ num < (ms + 1) * den

TP == "spark.openlineage.transport."

\* What a legacy transport call that injects must return, but for the
\* timeout's rounding: tr is the transport, arg the input, r the result.
TransportKeysAsClaimed(tr, arg, r) ==
    LET wantCompression == tr.compression # None /\ tr.compression # Some("")
        wantAuth == tr.auth.has_api_key /\ tr.auth.bearer # None
                    /\ tr.auth.bearer # Some("")
        headers == IF tr.custom_headers = None THEN EmptyMap ELSE tr.custom_headers[1]
        headerKeys == {TP \o "headers." \o h : h \in DOMAIN headers}
    IN  /\ DOMAIN r \ DOMAIN arg =
              {TP \o "type", TP \o "url", TP \o "endpoint", TP \o "timeoutInMillis"}
              \cup (IF wantCompression THEN {TP \o "compression"} ELSE {})
              \cup (IF wantAuth THEN {TP \o "auth.type", TP \o "auth.apiKey"} ELSE {})
              \cup headerKeys
        /\ DOMAIN arg \subseteq DOMAIN r
        /\ \A k \in DOMAIN arg : r[k] = arg[k]
        /\ r[TP \o "type"] = "http"
        /\ r[TP \o "url"] = tr.url
        /\ r[TP \o "endpoint"] = tr.endpoint
        /\ wantCompression => r[TP \o "compression"] = tr.compression[1]
        /\ wantAuth => /\ r[TP \o "auth.type"] = "api_key"
                       /\ r[TP \o "auth.apiKey"] = tr.auth.bearer[1]
        /\ Cardinality(headerKeys) = Cardinality(DOMAIN headers)
        /\ \A h \in DOMAIN headers : r[TP \o "headers." \o h] = headers[h]

LegacyTransportInjects ==
    /\ LegacyTransportCall
    /\ ~HasKeyPrefixed(last.arg, "spark.openlineage.transport")
    /\ transport.kind = "http"

\* C3 as stated: timeoutInMillis is floor(timeout * 1000) as a string.
C3_AsStated ==
    LegacyTransportInjects
    => /\ last.outcome = "returned"
       /\ last.ret # None
       /\ TransportKeysAsClaimed(transport, last.arg, last.ret[1])
       /\ IsFloor(ParseInt(last.ret[1][TP \o "timeoutInMillis"]),
                  transport.timeout16 * 1000, 16)

\* C3, amended: a legacy transport call on a mapping with no key starting with
\* spark.openlineage.transport, under an http transport, returns the input
\* overlaid with exactly type, url, endpoint, timeoutInMillis, compression iff
\* truthy, auth.type and auth.apiKey iff the auth has api_key and a non-empty
\* bearer, and one headers.<name> per custom header; timeoutInMillis is
\* timeout * 1000 with the fraction dropped (rounded toward zero, which is the
\* floor only for a timeout >= 0), as a decimal string.
C3_TransportInjection ==
    LegacyTransportInjects
    => /\ last.outcome = "returned"
       /\ last.ret # None
       /\ TransportKeysAsClaimed(transport, last.arg, last.ret[1])
       /\ IsTruncation(ParseInt(last.ret[1][TP \o "timeoutInMillis"]),
                       transport.timeout16 * 1000, 16)

\* A negative timeout, -1/16 s = -62.5 ms, with every optional key injected.
C3_Witness ==
    /\ LegacyTransportInjects
    /\ transport.timeout16 = -1
    /\ transport.compression = Some("gzip")
    /\ transport.auth = [has_api_key |-> TRUE, bearer |-> Some("Bearer key")]
    /\ transport.custom_headers # None /\ transport.custom_headers # Some(EmptyMap)
    /\ last.arg = ("a" :> "b")
    /\ last.ret # None
    /\ last.ret[1][TP \o "timeoutInMillis"] = "-62"
    /\ last.ret[1][TP \o "headers.X-Foo"] = "bar"
    /\ Cardinality(DOMAIN last.ret[1]) = 10

\* C4: a legacy transport call on a mapping with no key starting with
\* spark.openlineage.transport, under a transport whose kind is not http,
\* returns normally, and returns the empty mapping.
C4_NonHttpReturnsEmpty ==
    (/\ LegacyTransportCall
     /\ ~HasKeyPrefixed(last.arg, "spark.openlineage.transport")
     /\ transport.kind # "http")
    => /\ last.outcome = "returned"
       /\ last.ret = Some(EmptyMap)
       /\ last.ret # None /\ DOMAIN last.ret[1] = {}

C4_Witness ==
    /\ LegacyTransportCall
    /\ transport.kind = "kafka"
    /\ last.arg = ("a" :> "b")
    /\ last.outcome = "returned"
    /\ last.ret = Some(EmptyMap)

\* C5: idempotence.  When a legacy or no-op injector is called on the mapping
\* its own previous call returned, with the same context and transport, the
\* call returns that mapping unchanged.
C5_Idempotent ==
    (/\ Len(trail) >= 2
     /\ trail[Len(trail)] = trail[Len(trail) - 1]
     /\ last.variant \in {"legacy", "noop"})
    => /\ last.outcome = "returned"
       /\ last.ret = Some(last.arg)

\* The second of two legacy parent-job calls, the first of which injected.
C5_Witness ==
    /\ trail = <<"parent", "parent">>
    /\ parentFn = "legacy"
    /\ ~HasKeyPrefixed(origin, "spark.openlineage.parent")
    /\ last.arg # origin
    /\ last.ret = Some(last.arg)

\* The variant a legacy surface's import outcome binds.
BoundBy(outcome) == IF outcome = "ok" THEN "legacy" ELSE "noop"

\* C6: capability resolution.  Once the module is loaded, and after any calls:
\* if the unified import succeeded both names are bound to its exports and
\* neither legacy surface was probed; otherwise both were probed, the
\* parent-job name is the legacy wrapper iff the macros import succeeded and
\* the transport name is the legacy wrapper iff the listener import succeeded,
\* each the no-op otherwise.  Both names are bound, and stay as resolved.
C6_Resolution ==
    pc = "loaded"
    => /\ imported.unified \in {"ok", "ImportError"}
       /\ imported.unified = "ok"
             => /\ parentFn = "unified" /\ transportFn = "unified"
                /\ imported.macros = "untried" /\ imported.listener = "untried"
       /\ imported.unified = "ImportError"
             => /\ imported.macros \in {"ok", "ImportError"}
                /\ imported.listener \in {"ok", "ImportError"}
                /\ parentFn = BoundBy(imported.macros)
                /\ transportFn = BoundBy(imported.listener)
       /\ parentFn \in {"unified", "legacy", "noop"}
       /\ transportFn \in {"unified", "legacy", "noop"}

\* A mixed resolution (macros missing, listener present), after calls of both.
C6_Witness ==
    /\ pc = "loaded"
    /\ imported = [unified |-> "ImportError", macros |-> "ImportError",
                   listener |-> "ok"]
    /\ parentFn = "noop" /\ transportFn = "legacy"
    /\ trail = <<"parent", "transport">>

\* The number of calls of injector fn made so far.
CallsOf(fn) == Cardinality({i \in 1..Len(trail) : trail[i] = fn})

\* C7 as stated: once loaded, a no-op-bound capability has exactly one warning
\* line, whatever calls were made.
C7_AsStated ==
    pc = "loaded"
    => /\ parentFn = "noop" => warnings.parent = 1
       /\ transportFn = "noop" => warnings.transport = 1

\* C7, amended: the warning for an unavailable capability is emitted by each
\* call of the no-op-bound injector and not at load: the number of warning
\* lines for a capability is the number of calls of its no-op (zero after
\* load and before a call), and zero for a capability that is available.
C7_WarningPerCall ==
    /\ warnings.parent = IF parentFn = "noop" THEN CallsOf("parent") ELSE 0
    /\ warnings.transport = IF transportFn = "noop" THEN CallsOf("transport") ELSE 0

C7_Witness ==
    /\ parentFn = "noop"
    /\ trail = <<"parent", "parent">>
    /\ warnings.parent = 2

\* C8: a failed import is never raised.  The load goes on past each failed
\* import and binds the no-op for it, and a no-op-bound injector returns its
\* input mapping unchanged, for every mapping, context and transport.
C8_AbsentNeverRaised ==
    /\ imported.unified = "ImportError" => pc \in {"import_macros", "import_listener", "loaded"}
    /\ imported.macros = "ImportError"
          => pc \in {"import_listener", "loaded"} /\ parentFn = "noop"
    /\ imported.listener = "ImportError" => pc = "loaded" /\ transportFn = "noop"
    /\ last.variant = "noop"
          => /\ last.outcome = "returned"
             /\ last.ret = Some(last.arg)

\* All three imports failed; the no-op transport injector is called on a
\* mapping with spark.openlineage keys, with no ti and a kafka transport.
C8_Witness ==
    /\ imported = [unified |-> "ImportError", macros |-> "ImportError",
                   listener |-> "ImportError"]
    /\ last.fn = "transport" /\ last.variant = "noop"
    /\ "ti" \notin DOMAIN context
    /\ transport.kind = "kafka"
    /\ last.arg = ("spark.openlineage.parentRunId" :> "old")
                  @@ ("spark.openlineage.transport.type" :> "old")
    /\ last.ret = Some(last.arg)

\* C9: a legacy parent-job call with no ti in the context, on a mapping with
\* no key starting with spark.openlineage.parent, ends in a KeyError, returns
\* no mapping and makes no lineage lookup; a legacy parent-job call ends in a
\* KeyError only then; a legacy transport call never ends in an error.
C9_MissingTi ==
    /\ (/\ LegacyParentCall
        /\ "ti" \notin DOMAIN context
        /\ ~HasKeyPrefixed(last.arg, "spark.openlineage.parent"))
          => /\ last.outcome = "KeyError"
             /\ last.ret = None
             /\ last.lookups = {}
    /\ (LegacyParentCall /\ last.outcome # "returned")
          => /\ "ti" \notin DOMAIN context
             /\ ~HasKeyPrefixed(last.arg, "spark.openlineage.parent")
    /\ LegacyTransportCall => last.outcome = "returned"

C9_Witness ==
    /\ LegacyParentCall
    /\ "ti" \notin DOMAIN context
    /\ last.arg = ("a" :> "b")
    /\ last.outcome = "KeyError"
    /\ last.ret = None

\* The result of calling the legacy transport injector and then the legacy
\* parent-job injector on its result; None if either does not return.
TransportThenParent(properties, ctx, tr) ==
    LET t == inject_transport_information_into_spark_properties(
                 "legacy", properties, ctx, tr)
    IN  IF t.outcome # "returned" THEN None
        ELSE inject_parent_job_information_into_spark_properties(
                 "legacy", t.ret[1], ctx).ret

\* The result of calling the legacy parent-job injector and then the legacy
\* transport injector on its result; None if either does not return.
ParentThenTransport(properties, ctx, tr) ==
    LET q == inject_parent_job_information_into_spark_properties(
                 "legacy", properties, ctx)
    IN  IF q.outcome # "returned" THEN None
        ELSE inject_transport_information_into_spark_properties(
                 "legacy", q.ret[1], ctx, tr).ret

\* C10: order independence.  With both names bound to the legacy wrappers, an
\* http transport and a ti in the context, two calls made in one order return
\* the mapping the two calls in the other order return on the same input.
C10_OrderIndependent ==
    (/\ Len(trail) = 2
     /\ trail[1] # trail[2]
     /\ parentFn = "legacy" /\ transportFn = "legacy"
     /\ transport.kind = "http"
     /\ "ti" \in DOMAIN context)
    => /\ last.outcome = "returned"
       /\ last.ret # None
       /\ trail = <<"parent", "transport">>
             => last.ret = TransportThenParent(origin, context, transport)
       /\ trail = <<"transport", "parent">>
             => last.ret = ParentThenTransport(origin, context, transport)

\* Transport then parent on a mapping neither guard matches: seven keys added.
C10_Witness ==
    /\ trail = <<"transport", "parent">>
    /\ parentFn = "legacy" /\ transportFn = "legacy"
    /\ transport.kind = "http"
    /\ "ti" \in DOMAIN context
    /\ origin = ("a" :> "b")
    /\ last.ret # None
    /\ ParentKeys \subseteq DOMAIN last.ret[1]
    /\ TP \o "type" \in DOMAIN last.ret[1]
    /\ Cardinality(DOMAIN last.ret[1]) >= 8

====
